---- MODULE Spec2Model ----
(***************************************************************************)
(* Model of inara_app.py: the triangle demo, the in-memory activity store  *)
(* (create_activity / list_activities) and the unsynchronised execution of *)
(* create_activity by the threads of the server's worker pool.             *)
(***************************************************************************)
EXTENDS Integers, Sequences, FiniteSets, TLC

VARIABLES fake_activities_db, activity_id_counter, request, response,
          returned_ids, thread

vars == <<fake_activities_db, activity_id_counter, request, response,
          returned_ids, thread>>

(***************************************************************************)
(* Bounds of the model.                                                    *)
(***************************************************************************)
MaxCreates == 2
MaxHeight == 2
MaxMsgLen == 3

(***************************************************************************)
(* Optional[T]: None is the empty tuple, a present value v is <<v>>.       *)
(***************************************************************************)
None == <<>>

Some(v) == <<v>>

Value(opt) == opt[1]

Range(s) == {s[i] : i \in 1..Len(s)}

(***************************************************************************)
(* Strings are sequences of one-character strings, so that strip() and     *)
(* join() are computed character by character.                             *)
(***************************************************************************)
Chars == {" ", "a", "\n"}

Whitespace == {" ", "\n"}

SeqsUpTo(S, n) == UNION {[1..k -> S] : k \in 0..n}

Messages == SeqsUpTo(Chars, MaxMsgLen)

ShortMessages == SeqsUpTo(Chars, 1)

Heights == -1..MaxHeight

RECURSIVE lstrip(_)
lstrip(s) == IF s # <<>> /\ Head(s) \in Whitespace THEN lstrip(Tail(s)) ELSE s

RECURSIVE rstrip(_)
rstrip(s) ==
    IF s # <<>> /\ s[Len(s)] \in Whitespace
    THEN rstrip(SubSeq(s, 1, Len(s) - 1))
    ELSE s

strip(s) == rstrip(lstrip(s))

RECURSIVE repeat(_, _)
repeat(c, n) == IF n <= 0 THEN <<>> ELSE <<c>> \o repeat(c, n - 1)

RECURSIVE join(_, _)
join(sep, lines) ==
    IF lines = <<>> THEN <<>>
    ELSE IF Len(lines) = 1 THEN lines[1]
    ELSE lines[1] \o sep \o join(sep, Tail(lines))

(***************************************************************************)
(* build_triangle: a ValueError is [ok |-> FALSE, error |-> text], a       *)
(* returned string is [ok |-> TRUE, value |-> characters].                 *)
(***************************************************************************)
triangle_line(height, i) == repeat(" ", height - i - 1) \o <<"/">>

build_triangle_off_by_one(message, height) ==
    IF strip(message) = <<>>
    THEN [ok |-> FALSE, error |-> "message must be non-empty"]
    ELSE IF height < 0
    THEN [ok |-> FALSE, error |-> "height must be >= 0"]
    ELSE [ok |-> TRUE,
          value |-> join(<<"\n">>,
                         <<message>> \o [i \in 1..height |->
                                           repeat(" ", height - (i - 1)) \o <<"/">>])]

build_triangle_no_checks(message, height) ==
    [ok |-> TRUE,
     value |-> join(<<"\n">>,
                    <<message>> \o [i \in 1..height |-> triangle_line(height, i - 1)])]

build_triangle(message, height) ==
    IF strip(message) = <<>>
    THEN [ok |-> FALSE, error |-> "message must be non-empty"]
    ELSE IF height < 0
    THEN [ok |-> FALSE, error |-> "height must be >= 0"]
    ELSE [ok |-> TRUE,
          value |-> join(<<"\n">>,
                         <<message>> \o [i \in 1..height |-> triangle_line(height, i - 1)])]

(***************************************************************************)
(* Request bodies of POST /activities after validation (ActivityCreate).   *)
(***************************************************************************)
Times == {1, 2}

BodyA ==
    [title |-> "Field visit", description |-> None,
     assignee_id |-> 7, support_assignee_id |-> None,
     program_id |-> None, project_id |-> None, main_donor_id |-> None,
     start_datetime |-> 0, end_datetime |-> 1,
     priority |-> "medium", status |-> "planned", notes |-> None,
     office_id |-> Some(1), department |-> None, weekly_plan_id |-> None]

BodyB ==
    [BodyA EXCEPT !.title = "Report", !.assignee_id = 9,
                  !.office_id = Some(2), !.status = "completed"]

BodyC ==
    [BodyA EXCEPT !.title = "Survey", !.status = "completed",
                  !.department = Some("MEAL"), !.weekly_plan_id = Some(3)]

BodyD ==
    [BodyA EXCEPT !.title = "Audit", !.assignee_id = 9, !.office_id = None,
                  !.department = Some("MEAL"), !.end_datetime = 3]

Bodies == {BodyA, BodyB, BodyC, BodyD}

OfficeFilters == {None, Some(1), Some(2)}

AssigneeFilters == {None, Some(7), Some(9)}

StatusFilters == {None, Some("planned")}

DepartmentFilters == {None, Some("MEAL")}

(***************************************************************************)
(* create_activity, lines 134-159: the record built from the body.         *)
(***************************************************************************)
late_by_end_datetime(body, now) ==
    body.end_datetime < now /\ body.status # "completed"

compute_is_late(body, now) == FALSE

ActivityRead_two_clock_reads(body, id, is_late, now) ==
    [id |-> id, weekly_plan_id |-> body.weekly_plan_id,
     title |-> body.title, description |-> body.description,
     assignee_id |-> body.assignee_id,
     support_assignee_id |-> body.support_assignee_id,
     program_id |-> body.program_id, project_id |-> body.project_id,
     main_donor_id |-> body.main_donor_id,
     start_datetime |-> body.start_datetime,
     end_datetime |-> body.end_datetime,
     priority |-> body.priority, status |-> body.status,
     notes |-> body.notes, office_id |-> body.office_id,
     department |-> body.department,
     is_late |-> is_late, created_at |-> now, updated_at |-> now + 1]

ActivityRead(body, id, is_late, now) ==
    [id |-> id, weekly_plan_id |-> body.weekly_plan_id,
     title |-> body.title, description |-> body.description,
     assignee_id |-> body.assignee_id,
     support_assignee_id |-> body.support_assignee_id,
     program_id |-> body.program_id, project_id |-> body.project_id,
     main_donor_id |-> body.main_donor_id,
     start_datetime |-> body.start_datetime,
     end_datetime |-> body.end_datetime,
     priority |-> body.priority, status |-> body.status,
     notes |-> body.notes, office_id |-> body.office_id,
     department |-> body.department,
     is_late |-> is_late, created_at |-> now, updated_at |-> now]

(***************************************************************************)
(* list_activities, lines 176-190: the filters applied one after another.  *)
(***************************************************************************)
filter_results_each_on_db(db, office_id, assignee_id, status, department) ==
    LET by_office(a) == a.office_id = office_id
        by_assignee(a) == a.assignee_id = Value(assignee_id)
        by_status(a) == a.status = Value(status)
        by_department(a) == a.department = department
        r1 == IF office_id # None THEN SelectSeq(db, by_office) ELSE db
        r2 == IF assignee_id # None THEN SelectSeq(db, by_assignee) ELSE r1
        r3 == IF status # None THEN SelectSeq(db, by_status) ELSE r2
        r4 == IF department # None THEN SelectSeq(db, by_department) ELSE r3
    IN r4

filter_results_without_department(db, office_id, assignee_id, status, department) ==
    LET by_office(a) == a.office_id = office_id
        by_assignee(a) == a.assignee_id = Value(assignee_id)
        by_status(a) == a.status = Value(status)
        r1 == IF office_id # None THEN SelectSeq(db, by_office) ELSE db
        r2 == IF assignee_id # None THEN SelectSeq(r1, by_assignee) ELSE r1
        r3 == IF status # None THEN SelectSeq(r2, by_status) ELSE r2
    IN r3

filter_results(db, office_id, assignee_id, status, department) ==
    LET by_office(a) == a.office_id = office_id
        by_assignee(a) == a.assignee_id = Value(assignee_id)
        by_status(a) == a.status = Value(status)
        by_department(a) == a.department = department
        r1 == IF office_id # None THEN SelectSeq(db, by_office) ELSE db
        r2 == IF assignee_id # None THEN SelectSeq(r1, by_assignee) ELSE r1
        r3 == IF status # None THEN SelectSeq(r2, by_status) ELSE r2
        r4 == IF department # None THEN SelectSeq(r3, by_department) ELSE r3
    IN r4

(***************************************************************************)
(* State.  thread[t] is the position and the locals of worker thread t     *)
(* inside create_activity; returned_ids lists the ids returned by the      *)
(* create requests, in the order they returned.                            *)
(***************************************************************************)
Threads == {"t1", "t2"}

IdleThread == [pc |-> "idle", activity |-> None, loaded |-> None]

Init ==
    /\ fake_activities_db = <<>>
    /\ activity_id_counter = 1
    /\ request = [op |-> "none"]
    /\ response = [op |-> "none"]
    /\ returned_ids = <<>>
    /\ thread = [t \in Threads |-> IdleThread]

(***************************************************************************)
(* Handlers, each executed as a whole (one request at a time).             *)
(***************************************************************************)
health ==
    /\ request' = [op |-> "health"]
    /\ response' = [op |-> "health", status_code |-> 200,
                    body |-> [status |-> "ok"]]
    /\ UNCHANGED <<fake_activities_db, activity_id_counter, returned_ids, thread>>

root ==
    /\ request' = [op |-> "root"]
    /\ response' = [op |-> "root", status_code |-> 307, url |-> "/docs"]
    /\ UNCHANGED <<fake_activities_db, activity_id_counter, returned_ids, thread>>

triangle(message, height) ==
    LET result == build_triangle(message, height) IN
    /\ request' = [op |-> "triangle", message |-> message, height |-> height]
    /\ response' =
         IF result.ok
         THEN [op |-> "triangle", status_code |-> 200,
               body |-> [ok |-> TRUE, triangle |-> result.value]]
         ELSE [op |-> "triangle", status_code |-> 400, detail |-> result.error]
    /\ UNCHANGED <<fake_activities_db, activity_id_counter, returned_ids, thread>>

create_activity_no_increment(body, now) ==
    LET activity == ActivityRead(body, activity_id_counter,
                                 compute_is_late(body, now), now) IN
    /\ Len(fake_activities_db) < MaxCreates
    /\ request' = [op |-> "create_activity", body |-> body, now |-> now]
    /\ fake_activities_db' = Append(fake_activities_db, activity)
    /\ activity_id_counter' = activity_id_counter
    /\ response' = [op |-> "create_activity", status_code |-> 200,
                    body |-> activity]
    /\ returned_ids' = Append(returned_ids, activity.id)
    /\ UNCHANGED thread

create_activity_increment_first(body, now) ==
    LET activity == ActivityRead(body, activity_id_counter + 1,
                                 compute_is_late(body, now), now) IN
    /\ Len(fake_activities_db) < MaxCreates
    /\ request' = [op |-> "create_activity", body |-> body, now |-> now]
    /\ fake_activities_db' = Append(fake_activities_db, activity)
    /\ activity_id_counter' = activity_id_counter + 1
    /\ response' = [op |-> "create_activity", status_code |-> 200,
                    body |-> activity]
    /\ returned_ids' = Append(returned_ids, activity.id)
    /\ UNCHANGED thread

create_activity_insert_front(body, now) ==
    LET activity == ActivityRead(body, activity_id_counter,
                                 compute_is_late(body, now), now) IN
    /\ Len(fake_activities_db) < MaxCreates
    /\ request' = [op |-> "create_activity", body |-> body, now |-> now]
    /\ fake_activities_db' = <<activity>> \o fake_activities_db
    /\ activity_id_counter' = activity_id_counter + 1
    /\ response' = [op |-> "create_activity", status_code |-> 200,
                    body |-> activity]
    /\ returned_ids' = Append(returned_ids, activity.id)
    /\ UNCHANGED thread

create_activity(body, now) ==
    LET activity == ActivityRead(body, activity_id_counter,
                                 compute_is_late(body, now), now) IN
    /\ Len(fake_activities_db) < MaxCreates
    /\ request' = [op |-> "create_activity", body |-> body, now |-> now]
    /\ fake_activities_db' = Append(fake_activities_db, activity)
    /\ activity_id_counter' = activity_id_counter + 1
    /\ response' = [op |-> "create_activity", status_code |-> 200,
                    body |-> activity]
    /\ returned_ids' = Append(returned_ids, activity.id)
    /\ UNCHANGED thread

list_activities(office_id, assignee_id, status, department) ==
    /\ request' = [op |-> "list_activities", office_id |-> office_id,
                   assignee_id |-> assignee_id, status |-> status,
                   department |-> department]
    /\ response' = [op |-> "list_activities", status_code |-> 200,
                    body |-> filter_results(fake_activities_db, office_id,
                                            assignee_id, status, department)]
    /\ UNCHANGED <<fake_activities_db, activity_id_counter, returned_ids, thread>>

(***************************************************************************)
(* create_activity run by worker thread t without any lock, one step per   *)
(* access to the shared list or counter: the record is built from the      *)
(* counter (139-159), appended (161), the counter is loaded and then       *)
(* stored incremented (162), and the record is returned (163).             *)
(***************************************************************************)
InFlight == {u \in Threads : thread[u].pc = "append"}

c_build(t, body, now) ==
    /\ thread[t].pc = "idle"
    /\ Len(fake_activities_db) + Cardinality(InFlight) < MaxCreates
    /\ thread' = [thread EXCEPT ![t] =
                    [pc |-> "append",
                     activity |-> Some(ActivityRead(body, activity_id_counter,
                                                    compute_is_late(body, now), now)),
                     loaded |-> None]]
    /\ UNCHANGED <<fake_activities_db, activity_id_counter, request, response,
                   returned_ids>>

c_append_and_increment(t) ==
    /\ thread[t].pc = "append"
    /\ fake_activities_db' = Append(fake_activities_db, Value(thread[t].activity))
    /\ activity_id_counter' = activity_id_counter + 1
    /\ thread' = [thread EXCEPT ![t].pc = "return"]
    /\ UNCHANGED <<request, response, returned_ids>>

c_append(t) ==
    /\ thread[t].pc = "append"
    /\ fake_activities_db' = Append(fake_activities_db, Value(thread[t].activity))
    /\ thread' = [thread EXCEPT ![t].pc = "load"]
    /\ UNCHANGED <<activity_id_counter, request, response, returned_ids>>

c_load(t) ==
    /\ thread[t].pc = "load"
    /\ thread' = [thread EXCEPT ![t].pc = "store",
                                ![t].loaded = Some(activity_id_counter)]
    /\ UNCHANGED <<fake_activities_db, activity_id_counter, request, response,
                   returned_ids>>

c_store(t) ==
    /\ thread[t].pc = "store"
    /\ activity_id_counter' = Value(thread[t].loaded) + 1
    /\ thread' = [thread EXCEPT ![t].pc = "return", ![t].loaded = None]
    /\ UNCHANGED <<fake_activities_db, request, response, returned_ids>>

c_return(t) ==
    /\ thread[t].pc = "return"
    /\ response' = [op |-> "create_activity", status_code |-> 200,
                    body |-> Value(thread[t].activity)]
    /\ returned_ids' = Append(returned_ids, Value(thread[t].activity).id)
    /\ thread' = [thread EXCEPT ![t] = IdleThread]
    /\ UNCHANGED <<fake_activities_db, activity_id_counter, request>>

Next ==
    \/ health
    \/ root
    \/ \E message \in ShortMessages, height \in Heights : triangle(message, height)
    \/ \E body \in Bodies, now \in Times : create_activity(body, now)
    \/ \E office_id \in OfficeFilters, assignee_id \in AssigneeFilters,
          status \in StatusFilters, department \in DepartmentFilters :
          list_activities(office_id, assignee_id, status, department)

Spec == Init /\ [][Next]_vars

NextTriangle ==
    \E message \in Messages, height \in Heights : triangle(message, height)

SpecTriangle == Init /\ [][NextTriangle]_vars

NextThreads ==
    \/ \E t \in Threads, body \in Bodies, now \in Times : c_build(t, body, now)
    \/ \E t \in Threads : c_append(t)
    \/ \E t \in Threads : c_load(t)
    \/ \E t \in Threads : c_store(t)
    \/ \E t \in Threads : c_return(t)

SpecThreads == Init /\ [][NextThreads]_vars

(***************************************************************************)
(* Helpers of the properties.                                              *)
(***************************************************************************)
db_ids == [i \in 1..Len(fake_activities_db) |-> fake_activities_db[i].id]

IsPrefix(s, t) == Len(s) <= Len(t) /\ SubSeq(t, 1, Len(s)) = s

IsWhitespaceOnly(m) == \A i \in 1..Len(m) : m[i] \in Whitespace

Supplied(f) == f # None

FilterNames == {"office_id", "assignee_id", "status", "department"}

SuppliedNames == {n \in FilterNames : Supplied(request[n])}

SameBody(a, b) == [a EXCEPT !.id = 0] = [b EXCEPT !.id = 0]

\* A record matches when every supplied filter equals its field.
Matches(a, q) ==
    /\ Supplied(q.office_id) => a.office_id = q.office_id
    /\ Supplied(q.assignee_id) => <<a.assignee_id>> = q.assignee_id
    /\ Supplied(q.status) => <<a.status>> = q.status
    /\ Supplied(q.department) => a.department = q.department

\* s restricted to the positions where q matches, by induction from the end.
RECURSIVE MatchingSubsequence(_, _)
MatchingSubsequence(s, q) ==
    IF s = <<>> THEN <<>>
    ELSE LET front == MatchingSubsequence(SubSeq(s, 1, Len(s) - 1), q)
             last == s[Len(s)]
         IN IF Matches(last, q) THEN Append(front, last) ELSE front

\* The parts of a text separated by the newline character.
RECURSIVE SplitLines(_)
SplitLines(text) ==
    IF \A i \in 1..Len(text) : text[i] # "\n" THEN <<text>>
    ELSE LET n == CHOOSE i \in 1..Len(text) :
                    text[i] = "\n" /\ \A j \in 1..(i - 1) : text[j] # "\n"
         IN <<SubSeq(text, 1, n - 1)>> \o SplitLines(SubSeq(text, n + 1, Len(text)))

(***************************************************************************)
(* C1: after any sequence of create and list requests executed one at a    *)
(* time, the ids of the stored activities are strictly increasing in store *)
(* order (hence pairwise distinct), also when two creates carried the same *)
(* body.                                                                   *)
(***************************************************************************)
C1_IdsStrictlyIncreasing ==
    \A i, j \in 1..Len(fake_activities_db) :
        i < j => fake_activities_db[i].id < fake_activities_db[j].id

C1_TwoIdenticalBodiesStored ==
    \E i, j \in 1..Len(fake_activities_db) :
        i < j /\ SameBody(fake_activities_db[i], fake_activities_db[j])

C3_ListReturnsMatchingSubsequence ==
    response.op = "list_activities" =>
        /\ response.body = MatchingSubsequence(fake_activities_db, request)
        /\ SuppliedNames = {} => response.body = fake_activities_db

C3_FilteredListReturned ==
    /\ response.op = "list_activities"
    /\ Supplied(request.department)
    /\ Supplied(request.assignee_id)
    /\ response.body # <<>>
    /\ Len(response.body) < Len(fake_activities_db)

(***************************************************************************)
(* C4: when exactly two filters are supplied, the records returned are     *)
(* those returned both by the list with only the first filter and by the   *)
(* list with only the second.                                              *)
(***************************************************************************)
Only(n) == [m \in FilterNames |-> IF m = n THEN request[m] ELSE None]

ListWith(q) ==
    filter_results(fake_activities_db, q.office_id, q.assignee_id, q.status,
                   q.department)

C4_TwoFiltersIntersect ==
    (response.op = "list_activities" /\ Cardinality(SuppliedNames) = 2) =>
        \E n1, n2 \in SuppliedNames :
            /\ n1 # n2
            /\ Range(response.body) =
                 Range(ListWith(Only(n1))) \cap Range(ListWith(Only(n2)))

C4_ProperIntersectionReturned ==
    /\ response.op = "list_activities"
    /\ Cardinality(SuppliedNames) = 2
    /\ response.body # <<>>
    /\ \E n \in SuppliedNames : Len(response.body) < Len(ListWith(Only(n)))

(***************************************************************************)
(* C5: without a lock the append and the increment of the counter are      *)
(* separate steps of a thread (no step changes both the store and the      *)
(* counter), and two interleaved creates reach a state where two stored    *)
(* activities carry the same id and an id below the counter is carried by  *)
(* no stored activity.                                                     *)
(***************************************************************************)
C5_AppendAndIncrementAreSeparateSteps ==
    [][~(fake_activities_db' # fake_activities_db
         /\ activity_id_counter' # activity_id_counter)]_vars

C5_DuplicateAndSkippedId ==
    /\ \A t \in Threads : thread[t].pc = "idle"
    /\ \E i, j \in 1..Len(fake_activities_db) :
          i # j /\ fake_activities_db[i].id = fake_activities_db[j].id
    /\ \E v \in 1..(activity_id_counter - 1) : v \notin Range(db_ids)

(***************************************************************************)
(* C6: the store is append-only: every step keeps the stored records at    *)
(* their positions with all their fields, and a step that changes the      *)
(* store or the counter is a create that added the returned record at the  *)
(* end (so a list request changes neither).                                *)
(***************************************************************************)
C6_AppendOnly ==
    [][/\ IsPrefix(fake_activities_db, fake_activities_db')
       /\ (fake_activities_db' # fake_activities_db
           \/ activity_id_counter' # activity_id_counter)
             => /\ response'.op = "create_activity"
                /\ fake_activities_db' = Append(fake_activities_db, response'.body)]_vars

C6_ListAfterTwoCreates ==
    response.op = "list_activities" /\ Len(fake_activities_db) >= 2

(***************************************************************************)
(* C7: a triangle request with an empty or whitespace-only message or a    *)
(* negative height is answered with status 400 carrying the error message  *)
(* as detail, and leaves the activity store and the id counter unchanged.  *)
(***************************************************************************)
C7_InvalidTriangleIsClientError ==
    [][(request'.op = "triangle"
        /\ (IsWhitespaceOnly(request'.message) \/ request'.height < 0))
          => /\ response'.op = "triangle"
             /\ response'.status_code = 400
             /\ response'.detail =
                  IF IsWhitespaceOnly(request'.message)
                  THEN "message must be non-empty"
                  ELSE "height must be >= 0"
             /\ UNCHANGED <<fake_activities_db, activity_id_counter>>]_vars

C7_TriangleRejectedWithStoredActivities ==
    /\ request.op = "triangle"
    /\ ~IsWhitespaceOnly(request.message)
    /\ request.height < 0
    /\ response.status_code = 400
    /\ fake_activities_db # <<>>

(***************************************************************************)
(* C8 as stated: for every height >= 0 and every message that is not empty *)
(* or whitespace-only, the text has height + 1 lines, the first the        *)
(* message, the k-th following one height - k spaces and one slash.        *)
(***************************************************************************)
TriangleShape ==
    LET lines == SplitLines(response.body.triangle)
        height == request.height
    IN /\ response.status_code = 200
       /\ Len(lines) = height + 1
       /\ lines[1] = request.message
       /\ \A k \in 1..height :
             /\ Len(lines[k + 1]) = height - k + 1
             /\ \A i \in 1..(height - k) : lines[k + 1][i] = " "
             /\ lines[k + 1][height - k + 1] = "/"

C8_EveryMessage ==
    (request.op = "triangle" /\ request.height >= 0
     /\ ~IsWhitespaceOnly(request.message))
       => TriangleShape

(***************************************************************************)
(* C8 amended: the same for every such message that contains no newline    *)
(* character, the lines being the parts of the text separated by newlines. *)
(***************************************************************************)
C8_MessageWithoutNewline ==
    (request.op = "triangle" /\ request.height >= 0
     /\ ~IsWhitespaceOnly(request.message)
     /\ \A i \in 1..Len(request.message) : request.message[i] # "\n")
       => TriangleShape

C8_TallTriangleReturned ==
    /\ request.op = "triangle"
    /\ request.height >= 2
    /\ request.message = <<" ", "a">>
    /\ response.status_code = 200

(***************************************************************************)
(* C9: every stored activity has created_at equal to updated_at, and the   *)
(* activity a create returns carries in both the time captured by that     *)
(* request.                                                                *)
(***************************************************************************)
C9_CreatedEqualsUpdated ==
    /\ \A i \in 1..Len(fake_activities_db) :
          fake_activities_db[i].created_at = fake_activities_db[i].updated_at
    /\ response.op = "create_activity" =>
          /\ response.body.created_at = request.now
          /\ response.body.updated_at = request.now

C9_StoredAtDifferentTimes ==
    /\ response.op = "list_activities"
    /\ \E i, j \in 1..Len(fake_activities_db) :
          fake_activities_db[i].created_at # fake_activities_db[j].created_at

(***************************************************************************)
(* C10: is_late is false on the activity a create returns and on every     *)
(* stored activity, also when its end_datetime precedes its creation time  *)
(* and its status is not "completed".                                      *)
(***************************************************************************)
C10_NeverLate ==
    /\ \A i \in 1..Len(fake_activities_db) : fake_activities_db[i].is_late = FALSE
    /\ response.op = "create_activity" => response.body.is_late = FALSE

C10_OverdueActivityStored ==
    \E i \in 1..Len(fake_activities_db) :
        /\ fake_activities_db[i].end_datetime < fake_activities_db[i].created_at
        /\ fake_activities_db[i].status # "completed"
        /\ response.op = "list_activities"

====
